---- MODULE Spec2Model ----
(***************************************************************************)
(* switchCollection (src/src/switch-collection.js): a stream combinator     *)
(* that keeps one inner subscription per (sinkKey, itemKey) of the current  *)
(* collection snapshot.                                                     *)
(*                                                                          *)
(* The three classes of the file are modelled: SwitchCollectionSource,      *)
(* SwitchCollectionSink (the orchestrator) and InnerSink.  Every handler is *)
(* an operator from a sink record S (the orchestrator's fields, the heap of *)
(* InnerSink objects it no longer references, and the trace of the calls    *)
(* the handler makes on its collaborators) to the record after the handler  *)
(* has returned.  The actions are the deliveries of the stream runtime:     *)
(* one handler call each, run to completion (single-threaded scheduler).    *)
(*                                                                          *)
(* The runtime (most) delivers the signals of a stream from scheduler       *)
(* tasks, after run() has returned: most.just(null) delivers event(null)    *)
(* and end() from one task.  The upstream follows the Source protocol: it   *)
(* delivers nothing after its end or error, nor after its subscription was  *)
(* disposed.  An inner stream may still deliver to an InnerSink whose       *)
(* subscription was disposed (the code guards against it with _disposed).   *)
(* calculateDiff lives in ./diff, outside the file: it is modelled by its   *)
(* contract, the exact difference of the two snapshots.                     *)
(***************************************************************************)
EXTENDS Integers, Sequences, FiniteSets, TLC

VARIABLES
  _state,        \* SwitchCollectionSink._state : sinkKey -> (itemKey -> InnerSink)
  _list,         \* SwitchCollectionSink._list : the stored snapshot
  _active,       \* SwitchCollectionSink._active
  _disposed,     \* SwitchCollectionSink._disposed
  _activeCount,  \* SwitchCollectionSink._activeCount
  _ended,        \* SwitchCollectionSink._ended
  _endValue,     \* SwitchCollectionSink._endValue
  released,      \* InnerSink objects that left _state (still held by the runtime)
  upstream,      \* the upstream source and the subscription run() returned
  last,          \* the delivery handled by the last step
  calls,         \* the calls the last step made on its collaborators, in order
  ends,          \* number of sink.end calls made so far on the downstream sink
  errors,        \* number of sink.error calls made so far on the downstream sink
  snapshots      \* number of snapshots delivered so far

vars == <<_state, _list, _active, _disposed, _activeCount, _ended, _endValue,
          released, upstream, last, calls, ends, errors, snapshots>>

(***************************************************************************)
(* Bounds of the model.                                                     *)
(***************************************************************************)
MaxSnapshots == 2   \* snapshots the upstream delivers

(***************************************************************************)
(* Inputs: keys, item keys, streams, items and snapshots.                   *)
(***************************************************************************)
_sinkKeys == <<"k1", "k2">>
SinkKeySet == {_sinkKeys[i] : i \in DOMAIN _sinkKeys}
ItemKeys == <<"a", "b">>
ItemKeySet == {ItemKeys[i] : i \in DOMAIN ItemKeys}
Streams == {"s1", "s2"}
NoSink == "undefined"
defaultMissingSink == "just(null)"
Null == "null"
Undefined == "undefined"
Values == {"v"}
EndValues == {"x"}

\* An item exposes sinks[sinkKey] -> stream | undefined.
Item(k1, k2) == [sinks |-> [s \in SinkKeySet |-> IF s = "k1" THEN k1 ELSE k2]]

\* The items a snapshot may hold under each item key.
ItemsOf(itemKey) ==
  IF itemKey = "a"
    THEN {Item("s1", "s1"), Item("s2", "s1"), Item("s1", NoSink)}
    ELSE {Item("s1", NoSink)}

\* A collection snapshot: item key -> item, for the item keys it holds.
Collection == [k \in {} |-> Item(NoSink, NoSink)]
Snapshots ==
  UNION {{l \in [D -> UNION {ItemsOf(k) : k \in D}] : \A k \in D : l[k] \in ItemsOf(k)} :
           D \in SUBSET ItemKeySet}

(***************************************************************************)
(* Map helpers (the ES6 Map operations the code uses).                      *)
(***************************************************************************)
EmptyMap == [k \in {} |-> {}]
MapSet(m, k, v) == [x \in DOMAIN m \cup {k} |-> IF x = k THEN v ELSE m[x]]
MapDelete(m, k) == [x \in DOMAIN m \ {k} |-> m[x]]

\* The keys of a mapping of the changeset, in the collection's iteration order.
KeysOf(set) == SelectSeq(ItemKeys, LAMBDA k : k \in set)

Call(S, c) == [S EXCEPT !.calls = Append(@, c)]

(***************************************************************************)
(* Collaborators.                                                           *)
(***************************************************************************)
\* calculateDiff(keys, old, new) of ./diff: falsy when nothing changed,
\* otherwise the item keys added, removed and changed.
calculateDiff(keys, old, new) ==
  LET added == DOMAIN new \ DOMAIN old
      removed == DOMAIN old \ DOMAIN new
      changed == {k \in DOMAIN old \cap DOMAIN new :
                    \E i \in DOMAIN keys : old[k].sinks[keys[i]] # new[k].sinks[keys[i]]}
  IN [null |-> added \cup removed \cup changed = {},
      added |-> added, removed |-> removed, changed |-> changed]

\* Mutant: no fallback to the default missing stream.
getSink_noDefault(itemKey, sinkKey, list) == list[itemKey].sinks[sinkKey]

getSink(itemKey, sinkKey, list) ==
  IF itemKey \in DOMAIN list /\ list[itemKey].sinks[sinkKey] # NoSink
    THEN list[itemKey].sinks[sinkKey]
    ELSE defaultMissingSink

(***************************************************************************)
(* InnerSink.                                                               *)
(***************************************************************************)
\* new InnerSink(sinkKey, itemKey, sink, scheduler, stream): the constructor
\* runs the stream (a subscription is started).
InnerSink(S, sinkKey, itemKey, stream) ==
  [S |-> Call(S, [call |-> "run", sinkKey |-> sinkKey, itemKey |-> itemKey,
                  stream |-> stream]),
   item |-> [sinkKey |-> sinkKey, itemKey |-> itemKey, stream |-> stream,
             active |-> TRUE, disposed |-> FALSE, disposals |-> 0]]

\* Mutant: every resolved stream counts as a different one.
isDifferentStream_always(item, stream) == TRUE

isDifferentStream(item, stream) == item.stream # stream

\* Mutant: disposes the subscription on every call.
InnerSink_dispose_unguarded(S, item) ==
  [S |-> Call(S, [call |-> "dispose", sinkKey |-> item.sinkKey,
                  itemKey |-> item.itemKey, stream |-> item.stream]),
   item |-> [item EXCEPT !.disposals = @ + 1, !.disposed = TRUE,
                         !.active = FALSE]]

InnerSink_dispose(S, item) ==
  IF item.disposed
    THEN [S |-> S, item |-> item]
    ELSE [S |-> Call(S, [call |-> "dispose", sinkKey |-> item.sinkKey,
                         itemKey |-> item.itemKey, stream |-> item.stream]),
          item |-> [item EXCEPT !.disposals = @ + 1, !.disposed = TRUE,
                                !.active = FALSE]]

(***************************************************************************)
(* SwitchCollectionSink.                                                    *)
(***************************************************************************)
_run(S, sinkKey, itemKey, stream) ==
  InnerSink([S EXCEPT !.activeCount = @ + 1], sinkKey, itemKey, stream)

\* Mutant: removes an active record without counting it out.
_remove_noDecrement(S, sinkKey, itemKey) ==
  IF sinkKey \notin DOMAIN S.state THEN S
  ELSE IF itemKey \notin DOMAIN S.state[sinkKey] THEN S
  ELSE LET items == S.state[sinkKey]
           d == InnerSink_dispose(S, items[itemKey])
           items2 == MapDelete(items, itemKey)
       IN [d.S EXCEPT !.released = @ \cup {d.item},
                      !.state = IF DOMAIN items2 = {}
                                  THEN MapDelete(@, sinkKey)
                                  ELSE MapSet(@, sinkKey, items2)]

\* Mutant: counts the record out whether or not it is still active.
_remove_alwaysDecrement(S, sinkKey, itemKey) ==
  IF sinkKey \notin DOMAIN S.state THEN S
  ELSE IF itemKey \notin DOMAIN S.state[sinkKey] THEN S
  ELSE LET items == S.state[sinkKey]
           d == InnerSink_dispose([S EXCEPT !.activeCount = @ - 1], items[itemKey])
           items2 == MapDelete(items, itemKey)
       IN [d.S EXCEPT !.released = @ \cup {d.item},
                      !.state = IF DOMAIN items2 = {}
                                  THEN MapDelete(@, sinkKey)
                                  ELSE MapSet(@, sinkKey, items2)]

\* Mutant: leaves the sink key in the mapping when its last record goes.
_remove_keepsEmptyMap(S, sinkKey, itemKey) ==
  IF sinkKey \notin DOMAIN S.state THEN S
  ELSE IF itemKey \notin DOMAIN S.state[sinkKey] THEN S
  ELSE LET items == S.state[sinkKey]
           item == items[itemKey]
           S1 == IF item.active THEN [S EXCEPT !.activeCount = @ - 1] ELSE S
           d == InnerSink_dispose(S1, item)
       IN [d.S EXCEPT !.released = @ \cup {d.item},
                      !.state = MapSet(@, sinkKey, MapDelete(items, itemKey))]

\* Mutant: deletes the record without disposing its subscription.
_remove_noDispose(S, sinkKey, itemKey) ==
  IF sinkKey \notin DOMAIN S.state THEN S
  ELSE IF itemKey \notin DOMAIN S.state[sinkKey] THEN S
  ELSE LET items == S.state[sinkKey]
           item == items[itemKey]
           S1 == IF item.active THEN [S EXCEPT !.activeCount = @ - 1] ELSE S
           items2 == MapDelete(items, itemKey)
       IN [S1 EXCEPT !.released = @ \cup {item},
                     !.state = IF DOMAIN items2 = {}
                                 THEN MapDelete(@, sinkKey)
                                 ELSE MapSet(@, sinkKey, items2)]

_remove(S, sinkKey, itemKey) ==
  IF sinkKey \notin DOMAIN S.state THEN S
  ELSE IF itemKey \notin DOMAIN S.state[sinkKey] THEN S
  ELSE LET items == S.state[sinkKey]
           item == items[itemKey]
           S1 == IF item.active THEN [S EXCEPT !.activeCount = @ - 1] ELSE S
           d == InnerSink_dispose(S1, item)
           items2 == MapDelete(items, itemKey)
       IN [d.S EXCEPT !.released = @ \cup {d.item},
                      !.state = IF DOMAIN items2 = {}
                                  THEN MapDelete(@, sinkKey)
                                  ELSE MapSet(@, sinkKey, items2)]

\* this._check is not defined anywhere: the call throws a TypeError.
_check(S, sinkKey, itemKey) ==
  [Call(S, [call |-> "throw", sinkKey |-> sinkKey, itemKey |-> itemKey])
     EXCEPT !.threw = TRUE]

_add(S, sinkKey, itemKey) ==
  LET has == sinkKey \in DOMAIN S.state
      items == IF has THEN S.state[sinkKey] ELSE EmptyMap
  IN IF has /\ itemKey \in DOMAIN items
       THEN _check(S, sinkKey, itemKey)
       ELSE LET stream == getSink(itemKey, sinkKey, S.list)
                r == _run(S, sinkKey, itemKey, stream)
            IN [r.S EXCEPT !.state = MapSet(@, sinkKey, MapSet(items, itemKey, r.item))]

\* Mutant: replaces the record without disposing the old subscription.
_update_noDispose(S, sinkKey, itemKey) ==
  IF sinkKey \notin DOMAIN S.state \/ itemKey \notin DOMAIN S.state[sinkKey]
    THEN _add(S, sinkKey, itemKey)
    ELSE LET items == S.state[sinkKey]
             item == items[itemKey]
             newStream == getSink(itemKey, sinkKey, S.list)
         IN IF isDifferentStream(item, newStream)
              THEN LET S1 == IF item.active THEN [S EXCEPT !.activeCount = @ - 1] ELSE S
                       r == _run([S1 EXCEPT !.released = @ \cup {item}],
                                 sinkKey, itemKey, newStream)
                   IN [r.S EXCEPT !.state = MapSet(@, sinkKey,
                                                   MapSet(items, itemKey, r.item))]
              ELSE S

_update(S, sinkKey, itemKey) ==
  IF sinkKey \notin DOMAIN S.state \/ itemKey \notin DOMAIN S.state[sinkKey]
    THEN _add(S, sinkKey, itemKey)
    ELSE LET items == S.state[sinkKey]
             item == items[itemKey]
             newStream == getSink(itemKey, sinkKey, S.list)
         IN IF isDifferentStream(item, newStream)
              THEN LET S1 == IF item.active THEN [S EXCEPT !.activeCount = @ - 1] ELSE S
                       d == InnerSink_dispose(S1, item)
                       r == _run([d.S EXCEPT !.released = @ \cup {d.item}],
                                 sinkKey, itemKey, newStream)
                   IN [r.S EXCEPT !.state = MapSet(@, sinkKey,
                                                   MapSet(items, itemKey, r.item))]
              ELSE S

\* Mutant: completes as soon as the upstream has ended.
_end_ignoringCount(S) ==
  IF S.ended
    THEN Call([S EXCEPT !.active = FALSE], [call |-> "sink.end", value |-> S.endValue])
    ELSE S

_end(S) ==
  IF S.ended /\ S.activeCount = 0
    THEN Call([S EXCEPT !.active = FALSE], [call |-> "sink.end", value |-> S.endValue])
    ELSE S

\* Mutant: forwards inner events whatever the lifecycle state.
eventInner_unguarded(S, sinkKey, itemKey, x) ==
  Call(S, [call |-> "sink.event", shape |-> "tagged",
           value |-> <<itemKey, sinkKey, x>>])

\* Mutant: builds the tuple as (sinkKey, itemKey, value).
eventInner_swapped(S, sinkKey, itemKey, x) ==
  IF ~S.active THEN S
  ELSE Call(S, [call |-> "sink.event", shape |-> "tagged",
                value |-> <<sinkKey, itemKey, x>>])

eventInner(S, sinkKey, itemKey, x) ==
  IF ~S.active THEN S
  ELSE Call(S, [call |-> "sink.event", shape |-> "tagged",
                value |-> <<itemKey, sinkKey, x>>])

endInner(S) ==
  IF ~S.active THEN S
  ELSE _end([S EXCEPT !.activeCount = @ - 1])

\* One forEach of event(): kind is the mapping of the changeset walked.
RECURSIVE forEach(_, _, _, _)
forEach(S, kind, sinkKey, keys) ==
  IF keys = <<>> \/ S.threw THEN S
  ELSE LET S1 == CASE kind = "removed" -> _remove(S, sinkKey, Head(keys))
                   [] kind = "added" -> _add(S, sinkKey, Head(keys))
                   [] kind = "changed" -> _update(S, sinkKey, Head(keys))
       IN forEach(S1, kind, sinkKey, Tail(keys))

RECURSIVE forEachSinkKey(_, _, _)
forEachSinkKey(S, changes, sinkKeys) ==
  IF sinkKeys = <<>> \/ S.threw THEN S
  ELSE LET sinkKey == Head(sinkKeys)
           S1 == forEach(S, "removed", sinkKey, KeysOf(changes.removed))
           S2 == forEach(S1, "added", sinkKey, KeysOf(changes.added))
           S3 == forEach(S2, "changed", sinkKey, KeysOf(changes.changed))
       IN forEachSinkKey(S3, changes, Tail(sinkKeys))

\* Mutant: notifies downstream only when something changed.
eventWith_onlyOnChange(S, list, changes) ==
  IF ~S.active THEN S
  ELSE LET S1 == [S EXCEPT !.list = list]
           S2 == IF changes.null THEN S1 ELSE forEachSinkKey(S1, changes, _sinkKeys)
       IN IF S2.threw \/ changes.null THEN S2
          ELSE Call(S2, [call |-> "sink.event", shape |-> "snapshot",
                         value |-> [list |-> list, changes |-> changes]])

\* event(t, list) with the changeset calculateDiff returned.
eventWith(S, list, changes) ==
  IF ~S.active THEN S
  ELSE LET S1 == [S EXCEPT !.list = list]
           S2 == IF changes.null THEN S1 ELSE forEachSinkKey(S1, changes, _sinkKeys)
       IN IF S2.threw THEN S2
          ELSE Call(S2, [call |-> "sink.event", shape |-> "snapshot",
                         value |-> [list |-> list, changes |-> changes]])

event(S, list) == eventWith(S, list, calculateDiff(_sinkKeys, S.list, list))

\* The slots of the mapping, in the order Map.forEach visits them.
Slots(S) ==
  LET ks == SelectSeq(_sinkKeys, LAMBDA k : k \in DOMAIN S.state)
      RECURSIVE walk(_)
      walk(rest) ==
        IF rest = <<>> THEN <<>>
        ELSE LET sk == Head(rest)
                 iks == SelectSeq(ItemKeys, LAMBDA k : k \in DOMAIN S.state[sk])
             IN [i \in DOMAIN iks |-> <<sk, iks[i]>>] \o walk(Tail(rest))
  IN walk(ks)

RECURSIVE disposeItems(_, _)
disposeItems(S, slots) ==
  IF slots = <<>> THEN S
  ELSE LET d == InnerSink_dispose(S, S.state[Head(slots)[1]][Head(slots)[2]])
       IN disposeItems([d.S EXCEPT !.released = @ \cup {d.item}], Tail(slots))

_disposeState(S) ==
  [disposeItems(S, Slots(S)) EXCEPT !.state = EmptyMap]

\* Mutant: releases every record when the upstream ends.
end_releasesAll(S, x) ==
  IF ~S.active THEN S
  ELSE _end(_disposeState([S EXCEPT !.endValue = x, !.ended = TRUE]))

end(S, x) ==
  IF ~S.active THEN S
  ELSE _end([S EXCEPT !.endValue = x, !.ended = TRUE])

\* Mutant: forwards every error, terminal or not.
error_unguarded(S) ==
  Call([S EXCEPT !.active = FALSE], [call |-> "sink.error"])

error(S) ==
  IF ~S.active THEN S
  ELSE Call([S EXCEPT !.active = FALSE], [call |-> "sink.error"])

\* Mutant: releases the records but stays active.
dispose_keepsActive(S) ==
  IF S.disposed THEN S
  ELSE _disposeState([S EXCEPT !.disposed = TRUE])

dispose(S) ==
  IF S.disposed THEN S
  ELSE _disposeState([S EXCEPT !.disposed = TRUE, !.active = FALSE])

(***************************************************************************)
(* InnerSink handlers (called by the runtime with the inner stream's        *)
(* signals).                                                                *)
(***************************************************************************)
InnerSink_event(S, item, x) ==
  IF item.disposed THEN [S |-> S, item |-> item]
  ELSE [S |-> eventInner(S, item.sinkKey, item.itemKey, x), item |-> item]

\* Mutant: ends without disposing its own subscription.
InnerSink_end_noDispose(S, item) ==
  IF item.disposed THEN [S |-> S, item |-> item]
  ELSE [S |-> endInner(S), item |-> [item EXCEPT !.active = FALSE]]

InnerSink_end(S, item) ==
  IF item.disposed THEN [S |-> S, item |-> item]
  ELSE InnerSink_dispose(endInner(S), [item EXCEPT !.active = FALSE])

InnerSink_error(S, item) ==
  IF item.disposed THEN [S |-> S, item |-> item]
  ELSE InnerSink_dispose(error(S), [item EXCEPT !.active = FALSE])

\* most.just(null), when its task runs: event(null) then end().
runJust(S, item) ==
  LET e == InnerSink_event(S, item, Null)
  IN InnerSink_end(e.S, e.item)

(***************************************************************************)
(* The state machine.                                                       *)
(***************************************************************************)
Cur ==
  [state |-> _state, list |-> _list, active |-> _active, disposed |-> _disposed,
   activeCount |-> _activeCount, ended |-> _ended, endValue |-> _endValue,
   released |-> released, calls |-> <<>>, threw |-> FALSE]

Count(seq, name) == Cardinality({i \in DOMAIN seq : seq[i].call = name})

Commit(S, op) ==
  /\ _state' = S.state
  /\ _list' = S.list
  /\ _active' = S.active
  /\ _disposed' = S.disposed
  /\ _activeCount' = S.activeCount
  /\ _ended' = S.ended
  /\ _endValue' = S.endValue
  /\ released' = S.released
  /\ calls' = S.calls
  /\ ends' = ends + Count(S.calls, "sink.end")
  /\ errors' = errors + Count(S.calls, "sink.error")
  /\ last' = op

Op(name, sinkKey, itemKey, arg) ==
  [op |-> name, sinkKey |-> sinkKey, itemKey |-> itemKey, arg |-> arg,
   held |-> TRUE]

\* The object a delivery reaches, put back where the runtime found it.
PutItem(S, sinkKey, itemKey, item) ==
  [S EXCEPT !.state = MapSet(@, sinkKey, MapSet(@[sinkKey], itemKey, item))]

Held(sinkKey, itemKey) ==
  sinkKey \in DOMAIN _state /\ itemKey \in DOMAIN _state[sinkKey]

\* new SwitchCollectionSink(keys, sink, scheduler), run against the upstream.
Init ==
  /\ _state = EmptyMap
  /\ _list = Collection
  /\ _active = TRUE
  /\ _disposed = FALSE
  /\ _activeCount = 0
  /\ _ended = FALSE
  /\ _endValue = Undefined
  /\ released = {}
  /\ upstream = [status |-> "running", endValue |-> Undefined, disposed |-> FALSE]
  /\ last = Op("run", "-", "-", "-")
  /\ calls = <<>>
  /\ ends = 0
  /\ errors = 0
  /\ snapshots = 0

UpstreamLive == upstream.status = "running" /\ ~upstream.disposed

\* The upstream delivers a snapshot.
UpstreamEvent(list) ==
  /\ UpstreamLive
  /\ snapshots < MaxSnapshots
  /\ snapshots' = snapshots + 1
  /\ Commit(event(Cur, list), Op("event", "-", "-", list))
  /\ UNCHANGED upstream

\* The upstream ends.
UpstreamEnd(x) ==
  /\ UpstreamLive
  /\ upstream' = [upstream EXCEPT !.status = "ended", !.endValue = x]
  /\ Commit(end(Cur, x), Op("end", "-", "-", x))
  /\ UNCHANGED snapshots

\* The upstream fails.
UpstreamError ==
  /\ UpstreamLive
  /\ upstream' = [upstream EXCEPT !.status = "errored"]
  /\ Commit(error(Cur), Op("error", "-", "-", "-"))
  /\ UNCHANGED snapshots

\* The consumer disposes the subscription SwitchCollectionSource.run returned:
\* it is the upstream's own subscription, returned unmodified.
RunDispose ==
  /\ ~upstream.disposed
  /\ upstream' = [upstream EXCEPT !.disposed = TRUE]
  /\ Commit(Cur, Op("run.dispose", "-", "-", "-"))
  /\ UNCHANGED snapshots

\* SwitchCollectionSink.dispose() is called.
Dispose ==
  /\ Commit(dispose(Cur), Op("dispose", "-", "-", "-"))
  /\ UNCHANGED <<upstream, snapshots>>

\* The stream of a record of the mapping delivers an event.
InnerEvent(sinkKey, itemKey, x) ==
  /\ Held(sinkKey, itemKey)
  /\ _state[sinkKey][itemKey].stream # defaultMissingSink
  /\ LET r == InnerSink_event(Cur, _state[sinkKey][itemKey], x)
     IN Commit(PutItem(r.S, sinkKey, itemKey, r.item),
               Op("inner.event", sinkKey, itemKey, x))
  /\ UNCHANGED <<upstream, snapshots>>

\* The stream of a record of the mapping ends.
InnerEnd(sinkKey, itemKey) ==
  /\ Held(sinkKey, itemKey)
  /\ _state[sinkKey][itemKey].stream # defaultMissingSink
  /\ LET r == InnerSink_end(Cur, _state[sinkKey][itemKey])
     IN Commit(PutItem(r.S, sinkKey, itemKey, r.item),
               Op("inner.end", sinkKey, itemKey, "-"))
  /\ UNCHANGED <<upstream, snapshots>>

\* The stream of a record of the mapping fails.
InnerError(sinkKey, itemKey) ==
  /\ Held(sinkKey, itemKey)
  /\ _state[sinkKey][itemKey].stream # defaultMissingSink
  /\ LET r == InnerSink_error(Cur, _state[sinkKey][itemKey])
     IN Commit(PutItem(r.S, sinkKey, itemKey, r.item),
               Op("inner.error", sinkKey, itemKey, "-"))
  /\ UNCHANGED <<upstream, snapshots>>

\* The task of the default missing stream of a record of the mapping runs.
MissingFire(sinkKey, itemKey) ==
  /\ Held(sinkKey, itemKey)
  /\ _state[sinkKey][itemKey].stream = defaultMissingSink
  /\ LET r == runJust(Cur, _state[sinkKey][itemKey])
     IN Commit(PutItem(r.S, sinkKey, itemKey, r.item),
               Op("inner.just", sinkKey, itemKey, Null))
  /\ UNCHANGED <<upstream, snapshots>>

\* A released InnerSink still receives a signal of its stream (disposal of a
\* subscription is not synchronous with the delivery of its signals).
StaleOp ==
  [op |-> "stale", sinkKey |-> "-", itemKey |-> "-", arg |-> "-", held |-> FALSE]

StaleEvent(item, x) ==
  /\ item \in released
  /\ LET r == IF item.stream = defaultMissingSink
                THEN InnerSink_event(Cur, item, Null)
                ELSE InnerSink_event(Cur, item, x)
     IN Commit([r.S EXCEPT !.released = (@ \ {item}) \cup {r.item}],
               StaleOp)
  /\ UNCHANGED <<upstream, snapshots>>

StaleEnd(item) ==
  /\ item \in released
  /\ LET r == InnerSink_end(Cur, item)
     IN Commit([r.S EXCEPT !.released = (@ \ {item}) \cup {r.item}],
               StaleOp)
  /\ UNCHANGED <<upstream, snapshots>>

StaleError(item) ==
  /\ item \in released
  /\ item.stream # defaultMissingSink
  /\ LET r == InnerSink_error(Cur, item)
     IN Commit([r.S EXCEPT !.released = (@ \ {item}) \cup {r.item}],
               StaleOp)
  /\ UNCHANGED <<upstream, snapshots>>

Next ==
  \/ \E list \in Snapshots : UpstreamEvent(list)
  \/ \E x \in EndValues : UpstreamEnd(x)
  \/ UpstreamError
  \/ RunDispose
  \/ Dispose
  \/ \E sk \in SinkKeySet, ik \in ItemKeySet, x \in Values : InnerEvent(sk, ik, x)
  \/ \E sk \in SinkKeySet, ik \in ItemKeySet : InnerEnd(sk, ik)
  \/ \E sk \in SinkKeySet, ik \in ItemKeySet : InnerError(sk, ik)
  \/ \E sk \in SinkKeySet, ik \in ItemKeySet : MissingFire(sk, ik)
  \/ \E item \in released, x \in Values : StaleEvent(item, x)
  \/ \E item \in released : StaleEnd(item)
  \/ \E item \in released : StaleError(item)

Spec == Init /\ [][Next]_vars

\* The stream of a record of the mapping whose subscription is not disposed
\* ends (the task of the default missing stream runs).
InnerCompletes ==
  \E sk \in SinkKeySet, ik \in ItemKeySet :
    /\ Held(sk, ik)
    /\ ~_state[sk][ik].disposed
    /\ (InnerEnd(sk, ik) \/ MissingFire(sk, ik))

\* The fairness the scheduler gives the inner streams: while some record of
\* the mapping has a running stream, the end of one of them is not postponed
\* forever.
Fairness == WF_vars(InnerCompletes)

LiveSpec == Init /\ [][Next]_vars /\ Fairness

(***************************************************************************)
(* The same program fed by a changeset collaborator that is not exact: of   *)
(* the item keys present in both the stored and the new snapshot, it may    *)
(* report some as added, and some as both removed and added (the cases _add *)
(* and the order of the loops of event() provide for).                      *)
(***************************************************************************)
Misreports(old, new) ==
  LET d == calculateDiff(_sinkKeys, old, new)
      both == DOMAIN old \cap DOMAIN new
  IN {[null |-> d.null /\ X \cup Y = {},
       added |-> d.added \cup X \cup Y,
       removed |-> d.removed \cup Y,
       changed |-> d.changed \ (X \cup Y)] :
        <<X, Y>> \in {q \in (SUBSET both) \X (SUBSET both) : q[1] \cap q[2] = {}}}

LooseOp(list, changes) ==
  [op |-> "event", sinkKey |-> "-", itemKey |-> "-", arg |-> list,
   held |-> TRUE, changes |-> changes]

\* The upstream delivers a snapshot and calculateDiff returns `changes'. An
\* exception thrown by the handler leaves it where it was thrown and goes to
\* the caller.
LooseEvent(list, changes) ==
  /\ UpstreamLive
  /\ snapshots < MaxSnapshots
  /\ snapshots' = snapshots + 1
  /\ Commit(eventWith(Cur, list, changes), LooseOp(list, changes))
  /\ UNCHANGED upstream

LooseNext ==
  \/ \E list \in Snapshots :
       \E changes \in Misreports(_list, list) : LooseEvent(list, changes)
  \/ \E x \in EndValues : UpstreamEnd(x)
  \/ UpstreamError
  \/ \E sk \in SinkKeySet, ik \in ItemKeySet, x \in Values : InnerEvent(sk, ik, x)
  \/ \E sk \in SinkKeySet, ik \in ItemKeySet : InnerEnd(sk, ik)
  \/ \E sk \in SinkKeySet, ik \in ItemKeySet : InnerError(sk, ik)
  \/ \E sk \in SinkKeySet, ik \in ItemKeySet : MissingFire(sk, ik)

LooseSpec == Init /\ [][LooseNext]_vars

(***************************************************************************)
(* Vocabulary of the properties.                                            *)
(***************************************************************************)
HeldSlots == {p \in SinkKeySet \X ItemKeySet : Held(p[1], p[2])}
HeldSlots_next == {p \in SinkKeySet \X ItemKeySet :
                     p[1] \in DOMAIN _state' /\ p[2] \in DOMAIN _state'[p[1]]}
IsCall(c, name, sinkKey, itemKey) ==
  c.call = name /\ c.sinkKey = sinkKey /\ c.itemKey = itemKey
SinkCalls(seq) == SelectSeq(seq, LAMBDA c : c.call \in {"sink.event", "sink.end", "sink.error"})

(***************************************************************************)
(* C1: the downstream sink receives at most one terminal signal in total:   *)
(* the completions and the errors delivered so far never add up to more     *)
(* than one.                                                                *)
(***************************************************************************)
C1_AtMostOneTerminal == ends + errors <= 1

\* An upstream error arrives after the error of an inner stream was delivered
\* downstream, and is not delivered.
C1_Witness == errors = 1 /\ last.op = "error" /\ calls = <<>>

(***************************************************************************)
(* C2: a completion is delivered downstream only when the upstream has      *)
(* ended, the active count is 0 and no record of the mapping is marked      *)
(* active, and it carries the end value the upstream ended with.            *)
(***************************************************************************)
C2_CompletionOnlyWhenDrained ==
  \A i \in DOMAIN calls :
    calls[i].call = "sink.end" =>
      /\ upstream.status = "ended"
      /\ _ended
      /\ _activeCount = 0
      /\ \A p \in HeldSlots : ~_state[p[1]][p[2]].active
      /\ calls[i].value = upstream.endValue
      /\ calls[i].value \in EndValues

\* The completion is delivered by the end of the last active inner stream,
\* after a snapshot released another one.
C2_Witness ==
  /\ last.op = "inner.end"
  /\ \E i \in DOMAIN calls : calls[i].call = "sink.end"
  /\ released # {}
  /\ Cardinality(HeldSlots) > 1

(***************************************************************************)
(* C3: once the upstream has ended with the orchestrator still running, and *)
(* the inner streams are not kept from ending, the orchestrator eventually  *)
(* completes downstream (or an error or a dispose() ends it first); and it  *)
(* is never left running with the upstream ended and no active record.      *)
(***************************************************************************)
C3_EventuallyCompletes ==
  /\ (_ended /\ _active) ~> (ends = 1 \/ errors = 1 \/ _disposed)
  /\ []((_ended /\ _active) => \E p \in HeldSlots : _state[p[1]][p[2]].active)

\* The upstream ends after the last snapshot removed every item, and the
\* completion is delivered at once.
C3_Witness ==
  /\ last.op = "end"
  /\ \E i \in DOMAIN calls : calls[i].call = "sink.end"
  /\ released # {}
  /\ HeldSlots = {}

(***************************************************************************)
(* C4: when a snapshot reports an item as changed and the stream resolved   *)
(* for (sinkKey, itemKey) is the one the record is bound to, the step       *)
(* leaves the record as it was (same flags, same subscription), starts no   *)
(* subscription and disposes none for the pair, and the active count moves  *)
(* only by the subscriptions the step starts and disposes for other pairs.  *)
(***************************************************************************)
C4_ReferenceStable ==
  [][\A sk \in SinkKeySet, ik \in ItemKeySet :
       (/\ _active
        /\ last'.op = "event"
        /\ ik \in calculateDiff(_sinkKeys, _list, last'.arg).changed
        /\ Held(sk, ik)
        /\ getSink(ik, sk, last'.arg) = _state[sk][ik].stream)
       => /\ <<sk, ik>> \in HeldSlots_next
          /\ _state'[sk][ik] = _state[sk][ik]
          /\ \A i \in DOMAIN calls' :
               /\ ~IsCall(calls'[i], "run", sk, ik)
               /\ ~IsCall(calls'[i], "dispose", sk, ik)
          /\ _activeCount' - _activeCount =
               Count(calls', "run") - Count(calls', "dispose")]_vars

\* A snapshot changed an item, and one of its records, still active, was not
\* restarted.
C4_Witness ==
  /\ last.op = "event"
  /\ calls # <<>>
  /\ \E sk \in SinkKeySet, ik \in ItemKeySet :
       /\ ik \in calls[Len(calls)].value.changes.changed
       /\ Held(sk, ik)
       /\ _state[sk][ik].active
       /\ \A i \in DOMAIN calls : ~IsCall(calls[i], "run", sk, ik)

(***************************************************************************)
(* C5: when a snapshot reports an item as changed and the stream resolved   *)
(* for (sinkKey, itemKey) differs from the bound one, the step disposes the *)
(* old subscription before it runs the new stream, the pair's record is the *)
(* fresh one, and the old InnerSink is left disposed; a signal a released   *)
(* InnerSink receives later makes no call downstream.                       *)
(***************************************************************************)
C5_Replacement ==
  [][/\ \A sk \in SinkKeySet, ik \in ItemKeySet :
          (/\ _active
           /\ last'.op = "event"
           /\ ik \in calculateDiff(_sinkKeys, _list, last'.arg).changed
           /\ Held(sk, ik)
           /\ getSink(ik, sk, last'.arg) # _state[sk][ik].stream)
          => LET old == _state[sk][ik]
                 new == getSink(ik, sk, last'.arg)
             IN /\ \E j \in DOMAIN calls' :
                     /\ calls'[j] = [call |-> "run", sinkKey |-> sk, itemKey |-> ik,
                                     stream |-> new]
                     /\ ~old.disposed =>
                          \E i \in 1..(j - 1) :
                            calls'[i] = [call |-> "dispose", sinkKey |-> sk,
                                         itemKey |-> ik, stream |-> old.stream]
                /\ Cardinality({i \in DOMAIN calls' : IsCall(calls'[i], "run", sk, ik)}) = 1
                /\ \E r \in released' :
                     /\ r.sinkKey = sk /\ r.itemKey = ik /\ r.stream = old.stream
                     /\ r.disposed /\ r.disposals = 1
                /\ <<sk, ik>> \in HeldSlots_next
                /\ _state'[sk][ik] = [sinkKey |-> sk, itemKey |-> ik, stream |-> new,
                                      active |-> TRUE, disposed |-> FALSE,
                                      disposals |-> 0]
     /\ last'.op = "stale" => calls' = <<>>
     /\ \A r \in released' : r.disposed]_vars

\* A snapshot replaced the stream of a record: its old subscription was
\* disposed, then the new stream was run.
C5_Witness ==
  /\ last.op = "event"
  /\ \E sk \in SinkKeySet, ik \in ItemKeySet :
       \E i, j \in DOMAIN calls :
         /\ i < j
         /\ IsCall(calls[i], "dispose", sk, ik)
         /\ IsCall(calls[j], "run", sk, ik)

(***************************************************************************)
(* C6: when a snapshot reports an item key as removed, the step leaves no   *)
(* record of that item under any sink key, every record it had is disposed  *)
(* (once) and no longer in the mapping; and every tagged event delivered    *)
(* downstream comes from a record the mapping holds, never from a released  *)
(* one, so none carries the key of a removed item.                          *)
(***************************************************************************)
C6_Removal ==
  [][/\ \A ik \in ItemKeySet :
          (/\ _active
           /\ last'.op = "event"
           /\ ik \in calculateDiff(_sinkKeys, _list, last'.arg).removed)
          => \A sk \in SinkKeySet :
               /\ <<sk, ik>> \notin HeldSlots_next
               /\ Held(sk, ik) =>
                    /\ \E r \in released' :
                         /\ r.sinkKey = sk /\ r.itemKey = ik
                         /\ r.stream = _state[sk][ik].stream
                         /\ r.disposed /\ ~r.active /\ r.disposals = 1
                    /\ ~_state[sk][ik].disposed =>
                         \E i \in DOMAIN calls' : IsCall(calls'[i], "dispose", sk, ik)
     /\ \A i \in DOMAIN calls' :
          (calls'[i].call = "sink.event" /\ calls'[i].shape = "tagged")
          => /\ last'.held
             /\ <<calls'[i].value[2], calls'[i].value[1]>> \in HeldSlots_next
             /\ calls'[i].value[1] \in DOMAIN _list']_vars

\* A snapshot removed an item and disposed its subscription under every sink
\* key.
C6_Witness ==
  /\ last.op = "event"
  /\ calls # <<>>
  /\ \E ik \in calls[Len(calls)].value.changes.removed :
       \A sk \in SinkKeySet : \E i \in DOMAIN calls : IsCall(calls[i], "dispose", sk, ik)

(***************************************************************************)
(* C7: once the subscription returned by SwitchCollectionSource.run has     *)
(* been disposed, no record of the mapping holds a subscription that is     *)
(* still running.  (Stated as claimed; the code does not satisfy it.)       *)
(***************************************************************************)
C7_RunDisposeReleasesAll ==
  upstream.disposed => \A p \in HeldSlots : _state[p[1]][p[2]].disposed

(***************************************************************************)
(* C8: in the step that delivers an error downstream, every record of the   *)
(* mapping is left with its subscription disposed.  (Stated as claimed; the *)
(* code does not satisfy it.)                                               *)
(***************************************************************************)
C8_ErrorReleasesAll ==
  (\E i \in DOMAIN calls : calls[i].call = "sink.error")
    => \A p \in HeldSlots : _state[p[1]][p[2]].disposed

(***************************************************************************)
(* C9: a snapshot handled while the orchestrator is running makes exactly   *)
(* one call on the downstream sink, event({list, changes}) with that        *)
(* snapshot and the changeset computed against the stored one (null when    *)
(* nothing changed), and the stored snapshot becomes the new one.           *)
(***************************************************************************)
C9_SnapshotNotification ==
  [][(_active /\ last'.op = "event")
       => /\ SinkCalls(calls') =
               <<[call |-> "sink.event", shape |-> "snapshot",
                  value |-> [list |-> last'.arg,
                             changes |-> calculateDiff(_sinkKeys, _list, last'.arg)]]>>
          /\ _list' = last'.arg]_vars

\* The second snapshot equals the stored one: nothing changed, and the
\* notification is still delivered.
C9_Witness ==
  /\ last.op = "event"
  /\ snapshots = 2
  /\ Len(calls) = 1
  /\ calls[1].call = "sink.event"
  /\ calls[1].value.changes.null
  /\ calls[1].value.list = _list
  /\ _list # Collection

(***************************************************************************)
(* C10: an added item that lacks the requested sink key is subscribed to    *)
(* the default missing stream.  When that stream's task runs on a record    *)
(* not yet released, with the orchestrator running, exactly one tagged      *)
(* event (itemKey, sinkKey, null) goes downstream, the record ends and the  *)
(* active count drops by one; it never emits again.  Once the upstream has  *)
(* ended, records bound to the default missing stream do not keep the       *)
(* orchestrator running forever.                                            *)
(***************************************************************************)
OnlyMissingActive ==
  \A p \in HeldSlots :
    _state[p[1]][p[2]].active => _state[p[1]][p[2]].stream = defaultMissingSink

Tagged(seq) ==
  SelectSeq(seq, LAMBDA c : c.call = "sink.event" /\ c.shape = "tagged")

Signals ==
  {"event", "end", "error", "inner.event", "inner.end", "inner.error",
   "inner.just", "stale"}

C11_Quiescence ==
  [][(ends + errors >= 1 /\ last'.op \in Signals)
       => /\ \A i \in DOMAIN calls' : calls'[i].call = "dispose"
          /\ _activeCount' = _activeCount
          /\ HeldSlots_next = HeldSlots
          /\ _list' = _list
          /\ ~_active'
          /\ ends' = ends /\ errors' = errors]_vars

\* After the error of an inner stream was delivered downstream, the upstream
\* delivers a snapshot with an item the mapping does not hold: it is ignored.
C11_Witness ==
  /\ errors = 1
  /\ last.op = "event"
  /\ calls = <<>>
  /\ DOMAIN last.arg # DOMAIN _list

(***************************************************************************)
(* C12: while the orchestrator is running, an event delivered to a record   *)
(* whose subscription is not disposed is emitted downstream in the same     *)
(* step, once, as (itemKey, sinkKey, value) of that record, and that step   *)
(* emits nothing else (nothing is buffered or reordered); every tagged      *)
(* event emitted is the one just delivered to a record of the mapping; an   *)
(* event delivered to a disposed or released InnerSink emits nothing.       *)
(***************************************************************************)
C12_TaggedEvents ==
  [][/\ last'.op = "inner.event"
          => LET sk == last'.sinkKey
                 ik == last'.itemKey
             IN IF _active /\ ~_state[sk][ik].disposed
                  THEN calls' = <<[call |-> "sink.event", shape |-> "tagged",
                                   value |-> <<ik, sk, last'.arg>>]>>
                  ELSE calls' = <<>>
     /\ last'.op = "stale" => calls' = <<>>
     /\ \A i \in DOMAIN calls' :
          (calls'[i].call = "sink.event" /\ calls'[i].shape = "tagged")
          => /\ last'.op \in {"inner.event", "inner.just"}
             /\ i = 1
             /\ calls'[i].value[1] = last'.itemKey
             /\ calls'[i].value[2] = last'.sinkKey
             /\ calls'[i].value[3] = last'.arg
             /\ _active
             /\ ~_state[last'.sinkKey][last'.itemKey].disposed]_vars

\* While the upstream has ended and the orchestrator drains, an event of an
\* active record is emitted tagged.
C12_Witness ==
  /\ last.op = "inner.event"
  /\ calls = <<[call |-> "sink.event", shape |-> "tagged",
                value |-> <<last.itemKey, last.sinkKey, last.arg>>]>>
  /\ _ended /\ _active

(***************************************************************************)
(* C13: while the orchestrator is running, the active count is >= 0 and is  *)
(* the number of records of the mapping marked active (a record that ended  *)
(* naturally is not counted out again when it is removed or replaced).      *)
(***************************************************************************)
ActiveRecords == {p \in HeldSlots : _state[p[1]][p[2]].active}

C13_ActiveCount ==
  _active => /\ _activeCount >= 0
             /\ _activeCount = Cardinality(ActiveRecords)

\* A snapshot replaced the stream of a record that had already ended (no
\* dispose call was needed), while other records are still active.
C13_Witness ==
  /\ _active
  /\ last.op = "event"
  /\ _activeCount >= 2
  /\ \E sk \in SinkKeySet, ik \in ItemKeySet :
       /\ \E i \in DOMAIN calls : IsCall(calls[i], "run", sk, ik)
       /\ \A i \in DOMAIN calls : ~IsCall(calls[i], "dispose", sk, ik)
       /\ \E r \in released : r.sinkKey = sk /\ r.itemKey = ik

(***************************************************************************)
(* C16: dispose() of the orchestrator disposes the subscription of every    *)
(* record of the mapping, empties the mapping and makes the orchestrator    *)
(* terminal; once disposed, no step calls the downstream sink or starts a   *)
(* subscription, and another dispose() changes nothing.                     *)
(***************************************************************************)
C16_Dispose ==
  [][/\ last'.op = "dispose"
          => /\ _state' = EmptyMap
             /\ ~_active' /\ _disposed'
             /\ \A p \in HeldSlots :
                  LET item == _state[p[1]][p[2]]
                  IN /\ [item EXCEPT !.disposals = 1, !.disposed = TRUE,
                                     !.active = FALSE] \in released'
                     /\ ~item.disposed
                          <=> \E i \in DOMAIN calls' :
                                IsCall(calls'[i], "dispose", p[1], p[2])
             /\ \A r \in released' : r.disposed
             /\ \A i \in DOMAIN calls' : calls'[i].call = "dispose"
             /\ _disposed => /\ calls' = <<>>
                             /\ UNCHANGED <<_state, _list, _active, _activeCount,
                                            _ended, _endValue, released>>
     /\ _disposed => /\ calls' = <<>>
                     /\ _state' = EmptyMap
                     /\ ~_active' /\ _disposed']_vars

\* dispose() released the records of both sink keys while they were active.
C16_Witness ==
  /\ last.op = "dispose"
  /\ Len(calls) >= 2
  /\ \A i \in DOMAIN calls : calls[i].call = "dispose"
  /\ _state = EmptyMap
  /\ _activeCount >= 2

(***************************************************************************)
(* C17: the subscription of an InnerSink is disposed at most once, and once *)
(* exactly as soon as the InnerSink has ended, failed or been released      *)
(* (whatever came first and whatever follows); a delivery to a disposed     *)
(* InnerSink calls nothing and changes nothing in the orchestrator.         *)
(***************************************************************************)
DisposedOnce(item) ==
  /\ item.disposals = IF item.disposed THEN 1 ELSE 0
  /\ item.active <=> ~item.disposed

C17_DisposedOnce ==
  [][/\ \A p \in HeldSlots_next : DisposedOnce(_state'[p[1]][p[2]])
     /\ \A r \in released' : DisposedOnce(r) /\ r.disposed
     /\ (\/ last'.op = "stale"
         \/ /\ last'.op \in {"inner.event", "inner.end", "inner.error", "inner.just"}
            /\ _state[last'.sinkKey][last'.itemKey].disposed)
        => /\ calls' = <<>>
           /\ UNCHANGED <<_state, _list, _active, _disposed, _activeCount,
                          _ended, _endValue, released>>]_vars

\* A record that had ended naturally (its subscription disposed then) is
\* removed by a snapshot: no second dispose call is made for it.
C17_Witness ==
  /\ last.op = "event"
  /\ calls # <<>>
  /\ calls[Len(calls)].call = "sink.event"
  /\ \E r \in released :
       /\ r.itemKey \in calls[Len(calls)].value.changes.removed
       /\ r.disposals = 1
       /\ \A i \in DOMAIN calls :
            ~IsCall(calls[i], "dispose", r.sinkKey, r.itemKey)

(***************************************************************************)
(* C18: once the completion has been delivered downstream, every InnerSink  *)
(* ever constructed, in the mapping or released from it, has its            *)
(* subscription disposed.                                                   *)
(***************************************************************************)
C18_CompletionReleasedAll ==
  ends >= 1 => /\ \A p \in HeldSlots : _state[p[1]][p[2]].disposed
               /\ \A r \in released : r.disposed

\* The step that delivered the completion, with records left in the mapping
\* and others released before.
C18_Witness ==
  /\ \E i \in DOMAIN calls : calls[i].call = "sink.end"
  /\ Cardinality(HeldSlots) >= 2
  /\ released # {}

(***************************************************************************)
(* C19: until dispose(), for every configured sink key the item keys that   *)
(* have a record are the item keys of the stored snapshot, and no sink key  *)
(* of the mapping has an empty inner mapping; a natural completion leaves   *)
(* its record in the mapping, inactive.                                     *)
(***************************************************************************)
C19_MappingMatchesSnapshot ==
  [][/\ ~_disposed'
          => \A sk \in SinkKeySet :
               {ik \in ItemKeySet : <<sk, ik>> \in HeldSlots_next} = DOMAIN _list'
     /\ \A sk \in DOMAIN _state' : DOMAIN _state'[sk] # {}
     /\ last'.op \in {"inner.end", "inner.just"}
          => /\ HeldSlots_next = HeldSlots
             /\ ~_state'[last'.sinkKey][last'.itemKey].active]_vars

\* A second snapshot, with another item set, is processed while the record
\* of a completed stream stays in the mapping.
C19_Witness ==
  /\ _active
  /\ last.op = "event"
  /\ snapshots = 2
  /\ released # {}
  /\ \E p \in HeldSlots : ~_state[p[1]][p[2]].active
  /\ \E p \in HeldSlots : _state[p[1]][p[2]].active

(***************************************************************************)
(* C20: the end of the upstream while records are active calls nothing and  *)
(* releases nothing; from then until the completion, events of undisposed   *)
(* records are still emitted tagged, the active count changes only by one   *)
(* down on the natural end of an active record, the only dispose calls are  *)
(* those of an InnerSink for its own end or error (or of a dispose() of the *)
(* orchestrator), and the completion is delivered when the count is 0.      *)
(***************************************************************************)
C20_Draining ==
  [][/\ (last'.op = "end" /\ _active /\ _activeCount > 0)
          => /\ calls' = <<>>
             /\ _ended' /\ _active'
             /\ UNCHANGED <<_state, _activeCount, released>>
     /\ (_ended /\ _active)
          => /\ (/\ last'.op = "inner.event"
                 /\ ~_state[last'.sinkKey][last'.itemKey].disposed)
                  => \E i \in DOMAIN calls' :
                       /\ calls'[i].call = "sink.event"
                       /\ calls'[i].value = <<last'.itemKey, last'.sinkKey, last'.arg>>
             /\ _activeCount' # _activeCount
                  => /\ last'.op \in {"inner.end", "inner.just"}
                     /\ _state[last'.sinkKey][last'.itemKey].active
                     /\ _activeCount' = _activeCount - 1
             /\ \A i \in DOMAIN calls' :
                  calls'[i].call = "dispose"
                  => \/ last'.op = "dispose"
                     \/ /\ last'.op \in {"inner.end", "inner.just", "inner.error"}
                        /\ IsCall(calls'[i], "dispose", last'.sinkKey, last'.itemKey)
             /\ last'.op # "dispose" => HeldSlots_next = HeldSlots
             /\ (\E i \in DOMAIN calls' : calls'[i].call = "sink.end")
                  => _activeCount' = 0]_vars

\* While draining, an active record ends and others are still active.
C20_Witness ==
  /\ last.op = "inner.end"
  /\ _ended /\ _active
  /\ _activeCount >= 1
  /\ calls = <<[call |-> "dispose", sinkKey |-> last.sinkKey,
                itemKey |-> last.itemKey,
                stream |-> _state[last.sinkKey][last.itemKey].stream]>>

(***************************************************************************)
(* C14: when a snapshot's changeset reports as added (and not removed) an   *)
(* item key that has a record for a sink key, the step does not throw, the  *)
(* pair still has its record, and that record is the old one untouched if   *)
(* the resolved stream is the same reference, or a fresh one on the new     *)
(* stream, the old one released, if it differs.                             *)
(***************************************************************************)
Fresh(sinkKey, itemKey, stream) ==
  [sinkKey |-> sinkKey, itemKey |-> itemKey, stream |-> stream,
   active |-> TRUE, disposed |-> FALSE, disposals |-> 0]

Disposed(item) ==
  [item EXCEPT !.disposals = 1, !.disposed = TRUE, !.active = FALSE]

C14_AddedExistingAsChanged ==
  [][(last'.op = "event" /\ _active)
       => \A sk \in SinkKeySet :
            \A ik \in last'.changes.added \ last'.changes.removed :
              Held(sk, ik)
              => LET item == _state[sk][ik]
                     newStream == getSink(ik, sk, last'.arg)
                 IN /\ \A i \in DOMAIN calls' : calls'[i].call # "throw"
                    /\ <<sk, ik>> \in HeldSlots_next
                    /\ IF isDifferentStream(item, newStream)
                         THEN /\ _state'[sk][ik] = Fresh(sk, ik, newStream)
                              /\ Disposed(item) \in released'
                         ELSE _state'[sk][ik] = item]_vars

(***************************************************************************)
(* C15: within one snapshot the calls made for a sink key come in the order *)
(* removed keys, added keys, changed keys; an item key reported both        *)
(* removed and added that had a record ends the step with one fresh record  *)
(* on the stream resolved from the new snapshot, the old record released    *)
(* before the new subscription is started, and nothing thrown, for every    *)
(* sink key.                                                                *)
(***************************************************************************)
Phase(c, changes) ==
  CASE c.call = "dispose" -> IF c.itemKey \in changes.removed THEN 1 ELSE 3
    [] c.call = "run" -> IF c.itemKey \in changes.added THEN 2 ELSE 3
    [] c.call = "throw" -> 2
    [] OTHER -> 4

C15_RemovedAddedChanged ==
  [][(last'.op = "event" /\ _active)
       => LET changes == last'.changes
          IN /\ \A i, j \in DOMAIN calls' :
                  (/\ i < j
                   /\ calls'[i].call \in {"run", "dispose", "throw"}
                   /\ calls'[j].call \in {"run", "dispose", "throw"}
                   /\ calls'[i].sinkKey = calls'[j].sinkKey)
                  => Phase(calls'[i], changes) <= Phase(calls'[j], changes)
             /\ \A sk \in SinkKeySet :
                  \A ik \in changes.removed \cap changes.added :
                    Held(sk, ik)
                    => LET item == _state[sk][ik]
                           runs == {i \in DOMAIN calls' :
                                      IsCall(calls'[i], "run", sk, ik)}
                       IN /\ \A i \in DOMAIN calls' : calls'[i].call # "throw"
                          /\ <<sk, ik>> \in HeldSlots_next
                          /\ _state'[sk][ik] = Fresh(sk, ik, getSink(ik, sk, last'.arg))
                          /\ Disposed(item) \in released'
                          /\ Cardinality(runs) = 1
                          /\ ~item.disposed
                               => \E i \in DOMAIN calls' :
                                    /\ IsCall(calls'[i], "dispose", sk, ik)
                                    /\ \A j \in runs : i < j]_vars

====
